---- MODULE Spec2Model ----
(***************************************************************************)
(* State-machine model of the BierBelly Flask backend (src/app.py).        *)
(*                                                                         *)
(* The state is the four SQLite tables (users, sessions, drinks,           *)
(* exercises), the Flask cookie session of every client, the wall clock    *)
(* read by create_session and the uuid4 allocation.  A step is one         *)
(* completed request, the handlers running one at a time.                  *)
(*                                                                         *)
(* Every route handler f is modelled twice over the same code:             *)
(*   f_result(c, inputs)  what the handler returns and writes when client  *)
(*                        c sends `inputs` in the current state: a record  *)
(*                        with the HTTP status, the JSON body and the      *)
(*                        tables, cookies and counters after the request;  *)
(*   f(c, inputs)         the action that takes that step.                 *)
(* A request that changes nothing is a stuttering step.                    *)
(* add_drink and update_drink are modelled a third time, statement by      *)
(* statement on the connection of their own request (add_drink_check ..    *)
(* recalc_commit), for the behaviours in which two requests overlap; conn  *)
(* and writer belong to that part and stay as Init sets them elsewhere.    *)
(*                                                                         *)
(* Columns no handler ever branches on or computes with (sessions.name,    *)
(* drinks.name, drinks.abv, drinks.volume_oz) are left out of the rows,    *)
(* and so are the response fields that repeat them (username, names).      *)
(* uuid4 identifiers are modelled as fresh integers 1, 2, ... per table;   *)
(* an identifier is never handed out twice.  Floats that the code rounds   *)
(* are modelled as exact rationals rounded half-to-even (Python's round);  *)
(* for the inputs explored no float error reaches a rounding boundary.     *)
(* Request bodies are JSON objects / forms as the routes expect them;      *)
(* the values of their fields are not trusted.                             *)
(***************************************************************************)
EXTENDS Integers, Sequences, FiniteSets, TLC

\* ------------------------------------------------------------------ bounds
MaxSessions  == 2    \* session ids that create_session may hand out
MaxDrinks    == 2    \* drink ids that add_drink may hand out
MaxExercises == 2    \* exercise ids that add_exercise may hand out
MaxCount     == 3    \* increment of a drink is explored up to this count
MaxSteps     == 2    \* increment of an exercise is explored up to 10 * MaxSteps minutes
MaxClock     == 1    \* last wall-clock second explored

\* -------------------------------------------------------------- input sets
Clients   == {"k1", "k2"}            \* browsers, each with its own cookie session
Workers   == {"w1", "w2"}            \* server threads, each serving one request
Emails    == {"a@x", "b@x"}
Passwords == {"p1", "p2"}
Actions   == {"increment", "decrement", "reset", "None"}   \* "None": key absent

\* Python's None for an identifier or an email held in the cookie session.
NoneId    == 0
NoneEmail == "None"

SessionIds  == 1..MaxSessions
DrinkIds    == 1..MaxDrinks
ExerciseIds == 1..MaxExercises

\* JSON values a client may send as weight_kg: a number or a string.
GoodWeight   == [numeric |-> TRUE, v |-> 70]
BadWeight    == [numeric |-> FALSE, v |-> 0]
WeightInputs == {GoodWeight, BadWeight}
\* users.metrics: SQL NULL, or the JSON text of the posted object.
NullMetrics == [isnull |-> TRUE, numeric |-> FALSE, weight_kg |-> 0]
MetricsJsonOrNull(w) ==
    IF w.numeric THEN [isnull |-> FALSE, numeric |-> TRUE, weight_kg |-> w.v]
    ELSE NullMetrics

MetricsJson(w) == [isnull |-> FALSE, numeric |-> w.numeric, weight_kg |-> w.v]

EXERCISE_METS2 ==      \* twice the MET value, to stay in the integers
    [walking |-> 7, running |-> 16, biking |-> 12, swimming |-> 14,
     strength_training |-> 9]
ExerciseTypes == DOMAIN EXERCISE_METS2

VARIABLES
    users,       \* email -> [password, metrics]            (table users)
    sessions,    \* id -> [user_email, date, total_calories] (table sessions)
    drinks,      \* id -> [session_id, calories, count]      (table drinks)
    exercises,   \* id -> [session_id, type, minutes, calories_burned]
    flask,       \* client -> [logged_in, user_email, current_session_id]
    nextSession, \* next uuid of each table
    nextDrink,
    nextExercise,
    now,         \* the last wall-clock second a handler has read
    conn,        \* worker -> the drink request it serves on its own connection
    writer       \* the connection holding the store's write lock, and the
                 \* tables as its open transaction has written them

vars == <<users, sessions, drinks, exercises, flask, nextSession, nextDrink,
          nextExercise, now, conn, writer>>

\* ----------------------------------------------------------------- helpers
EmptyCookie == [logged_in |-> FALSE, user_email |-> NoneEmail,
                current_session_id |-> NoneId]

\* A handler's outcome that writes nothing: status, body, the state as it is.
Out(status, body) ==
    [status |-> status, body |-> body, users |-> users, sessions |-> sessions,
     drinks |-> drinks, exercises |-> exercises, flask |-> flask,
     nextSession |-> nextSession, nextDrink |-> nextDrink,
     nextExercise |-> nextExercise, now |-> now]

\* The step that commits a handler's outcome.
Apply(r) ==
    /\ users' = r.users
    /\ sessions' = r.sessions
    /\ drinks' = r.drinks
    /\ exercises' = r.exercises
    /\ flask' = r.flask
    /\ nextSession' = r.nextSession
    /\ nextDrink' = r.nextDrink
    /\ nextExercise' = r.nextExercise
    /\ now' = r.now
    /\ UNCHANGED <<conn, writer>>

\* What a request leaves behind, without its response.
Stored(r) ==
    <<r.users, r.sessions, r.drinks, r.exercises, r.flask, r.nextSession,
      r.nextDrink, r.nextExercise, r.now>>

Err(msg) == [error |-> msg]

\* f with the keys ks removed / with key k set to v
Remove(f, ks)   == [k \in DOMAIN f \ ks |-> f[k]]
Insert(f, k, v) == [x \in DOMAIN f \cup {k} |-> IF x = k THEN v ELSE f[x]]

RECURSIVE SumOver(_, _)
\* sum of w[k] over k in S
SumOver(S, w) ==
    IF S = {} THEN 0
    ELSE LET k == CHOOSE x \in S : TRUE IN w[k] + SumOver(S \ {k}, w)

\* Python round() of the non-negative rational n/d: nearest, ties to even.
PyRound(n, d) ==
    LET q == n \div d
        r == n % d
    IN  IF 2 * r < d THEN q
        ELSE IF 2 * r > d THEN q + 1
        ELSE IF q % 2 = 0 THEN q ELSE q + 1

get_current_user_email(c) ==
    IF flask[c].logged_in /\ flask[c].user_email # NoneEmail
    THEN flask[c].user_email ELSE NoneEmail

\* SELECT id FROM sessions WHERE user_email = ? ORDER BY date DESC LIMIT 1:
\* the candidates for the first row (ties in date are broken by the store),
\* NoneId standing for "no row".
LatestAny(ss, email) ==
    {s \in DOMAIN ss : \A t \in DOMAIN ss : ss[t].date <= ss[s].date}

LatestSessions(ss, email) ==
    {s \in DOMAIN ss : /\ ss[s].user_email = email
                       /\ \A t \in DOMAIN ss :
                            ss[t].user_email = email => ss[t].date <= ss[s].date}

LatestOrNone(ss, email) ==
    IF LatestSessions(ss, email) = {} THEN {NoneId} ELSE LatestSessions(ss, email)

\* The ownership check of the session-scoped handlers: no such row, or a row
\* of another user.
SessionMissing(session_id, user_email) == session_id \notin DOMAIN sessions

SessionMissingOrForeign(session_id, user_email) ==
    \/ session_id \notin DOMAIN sessions
    \/ sessions[session_id].user_email # user_email

\* `if action == 'increment' ... elif action == 'decrement' ... else: 400`
AnyAction(action) == TRUE

ValidAction(action) == action \in {"increment", "decrement"}

\* A worker between requests.  `overlap` tells whether its last request began
\* while another was in flight and was answered 200.
IdleConn == [pc |-> "idle", kind |-> "none", session_id |-> NoneId,
             drink_id |-> NoneId, action |-> "None", calories |-> 0, count |-> 0,
             new_total |-> 0, overlap |-> FALSE]

\* No transaction is open.
NoWriter == [holder |-> "none", drinks |-> << >>, sessions |-> << >>]

\* -------------------------------------------------------------------- Init
Init ==
    /\ users = << >>
    /\ sessions = << >>
    /\ drinks = << >>
    /\ exercises = << >>
    /\ flask = [c \in Clients |-> EmptyCookie]
    /\ nextSession = 1
    /\ nextDrink = 1
    /\ nextExercise = 1
    /\ now = 0
    /\ conn = [w \in Workers |-> IdleConn]
    /\ writer = NoWriter

\* ----------------------------------------------------------- auth handlers
register_result(c, email, password) ==
    IF email \in DOMAIN users
    THEN Out(409, Err("User already exists"))
    ELSE [Out(200, [message |-> "Registration successful"]) EXCEPT
            !.users = Insert(users, email,
                             [password |-> password, metrics |-> NullMetrics]),
            !.flask = [flask EXCEPT ![c] =
                         [logged_in |-> TRUE, user_email |-> email,
                          current_session_id |-> NoneId]]]

register(c, email, password) == Apply(register_result(c, email, password))

\* latest: the row the store returns for the latest-session query
\* `if not user or user['password'] != password`
UnknownEmail(email, password) == email \notin DOMAIN users

InvalidLogin(email, password) ==
    email \notin DOMAIN users \/ users[email].password # password

login_result(c, email, password, latest) ==
    IF InvalidLogin(email, password)
    THEN Out(401, Err("Invalid email or password"))
    ELSE [Out(200, [message |-> "Login successful"]) EXCEPT
            !.flask = [flask EXCEPT ![c] =
                         [logged_in |-> TRUE, user_email |-> email,
                          current_session_id |-> latest]]]

login(c, email, password) ==
    \E latest \in LatestOrNone(sessions, email) :
        Apply(login_result(c, email, password, latest))

logout_result(c) ==
    [Out(200, [message |-> "Logout successful"]) EXCEPT
        !.flask = [flask EXCEPT ![c] = EmptyCookie]]

logout(c) == Apply(logout_result(c))

get_user_status_result(c, latest) ==
    LET user_email == get_current_user_email(c)
        current    == flask[c].current_session_id
        resolved   == IF current # NoneId THEN current ELSE latest
    IN  IF user_email # NoneEmail /\ user_email \in DOMAIN users
        THEN [Out(200, [logged_in |-> TRUE,
                        metrics_set |-> ~users[user_email].metrics.isnull,
                        current_session_id |-> resolved]) EXCEPT
                !.flask = [flask EXCEPT ![c].current_session_id = resolved]]
        ELSE Out(200, [logged_in |-> FALSE, metrics_set |-> FALSE,
                       current_session_id |-> NoneId])

get_user_status(c) ==
    \E latest \in LatestOrNone(sessions, get_current_user_email(c)) :
        Apply(get_user_status_result(c, latest))

\* data: [complete, weight]; complete = all four required keys are present
set_user_metrics_result(c, data) ==
    LET user_email == get_current_user_email(c) IN
    IF user_email = NoneEmail THEN Out(401, Err("Not logged in"))
    ELSE IF ~data.complete THEN Out(400, Err("Missing required metrics data"))
    ELSE [Out(200, [message |-> "Metrics saved"]) EXCEPT
            !.users = [u \in DOMAIN users |->
                         IF u = user_email
                         THEN [users[u] EXCEPT !.metrics = MetricsJson(data.weight)]
                         ELSE users[u]]]

set_user_metrics(c, data) == Apply(set_user_metrics_result(c, data))

MetricsInputs(W) == {[complete |-> k, weight |-> w] : k \in BOOLEAN, w \in W}

\* --------------------------------------------------------- session handlers
NoDrinks(dr, sid)    == {}

DrinksOf(dr, sid)    == {d \in DOMAIN dr : dr[d].session_id = sid}

NoExercises(ex, sid) == {}

ExercisesOf(ex, sid) == {e \in DOMAIN ex : ex[e].session_id = sid}

\* The total the recomputation writes back: sum of calories * count over the
\* drink rows of the session.
SessionCaloriesOfAllDrinks(dr, sid) ==
    SumOver(DOMAIN dr, [d \in DOMAIN dr |-> dr[d].calories * dr[d].count])

update_session_calories(dr, sid) ==
    SumOver(DrinksOf(dr, sid), [d \in DOMAIN dr |-> dr[d].calories * dr[d].count])

\* UPDATE sessions SET total_calories = ? WHERE id = ?
SetTotal(ss, sid, total) ==
    [s \in DOMAIN ss |-> IF s = sid THEN [ss[s] EXCEPT !.total_calories = total]
                         ELSE ss[s]]

BurnedOf(ex, sid) ==
    SumOver(ExercisesOf(ex, sid), [e \in DOMAIN ex |-> ex[e].calories_burned])

\* SELECT SUM(calories_burned) ...: NULL when there is no row, read as 0
TotalBurnedSql(ex, sid) ==
    IF ExercisesOf(ex, sid) = {} THEN 0 ELSE BurnedOf(ex, sid)

\* sum(e['calories_burned'] for e in logged_exercises)
TotalBurnedOfAllRows(ex, sid) ==
    SumOver(DOMAIN ex, [e \in DOMAIN ex |-> ex[e].calories_burned])

TotalBurnedPy(ex, sid) == BurnedOf(ex, sid)

\* The orders in which ORDER BY date DESC may return the rows of `email`.
SessionsByDateDesc(ss, email) ==
    LET mine == {s \in DOMAIN ss : ss[s].user_email = email}
        n    == Cardinality(mine)
    IN  {q \in [1..n -> mine] :
           /\ \A i, j \in 1..n : i # j => q[i] # q[j]
           /\ \A i, j \in 1..n : i < j => ss[q[i]].date >= ss[q[j]].date}

SessionEntry(ss, ex, s) ==
    [id |-> s, date |-> ss[s].date, total_calories |-> ss[s].total_calories,
     net_calories |-> ss[s].total_calories - TotalBurnedSql(ex, s)]

RECURSIVE GrandNet(_, _)
\* the running total of get_sessions after the first k entries of the list
GrandNet(list, k) ==
    IF k = 0 THEN 0 ELSE GrandNet(list, k - 1) + list[k].net_calories

\* order: the order in which the store returns the caller's sessions
get_sessions_result(c, order) ==
    LET user_email == get_current_user_email(c)
        list == [i \in DOMAIN order |-> SessionEntry(sessions, exercises, order[i])]
    IN  IF user_email = NoneEmail THEN Out(401, Err("Not logged in"))
        ELSE Out(200, [sessions |-> list,
                       grand_net_calories |-> GrandNet(list, Len(list))])

get_sessions(c) ==
    \E order \in SessionsByDateDesc(sessions, get_current_user_email(c)) :
        Apply(get_sessions_result(c, order))

\* current_time: the clock reading of this request, in seconds
create_session_result(c, current_time) ==
    LET user_email == get_current_user_email(c)
        session_id == nextSession
    IN  IF user_email = NoneEmail THEN Out(401, Err("Not logged in"))
        ELSE [Out(200, [message |-> "Session created", session_id |-> session_id])
              EXCEPT
                !.sessions = Insert(sessions, session_id,
                                    [user_email |-> user_email,
                                     date |-> current_time, total_calories |-> 0]),
                !.nextSession = nextSession + 1,
                !.now = current_time,
                !.flask = [flask EXCEPT ![c].current_session_id = session_id]]

create_session(c, current_time) ==
    /\ current_time >= now                 \* the clock does not run backwards
    /\ IF create_session_result(c, current_time).status = 200
       THEN nextSession <= MaxSessions ELSE TRUE
    /\ Apply(create_session_result(c, current_time))

delete_session_result(c, session_id) ==
    LET user_email == get_current_user_email(c) IN
    IF user_email = NoneEmail THEN Out(401, Err("Not logged in"))
    ELSE IF SessionMissingOrForeign(session_id, user_email)
    THEN Out(404, Err("Session not found or unauthorized"))
    ELSE [Out(200, [message |-> "Session and associated data deleted successfully"])
          EXCEPT
            !.drinks = Remove(drinks, DrinksOf(drinks, session_id)),
            !.exercises = Remove(exercises, ExercisesOf(exercises, session_id)),
            !.sessions = Remove(sessions, {session_id}),
            !.flask = IF flask[c].current_session_id = session_id
                      THEN [flask EXCEPT ![c].current_session_id = NoneId]
                      ELSE flask]

delete_session(c, session_id) == Apply(delete_session_result(c, session_id))

\* ----------------------------------------------------------- drink handlers
DRINK_PRESETS ==       \* abv and volume_oz in tenths
    [beer             |-> [abv |-> 50,  volume_oz |-> 120],
     ipa              |-> [abv |-> 70,  volume_oz |-> 120],
     wine             |-> [abv |-> 120, volume_oz |-> 50],
     shot_spirit      |-> [abv |-> 400, volume_oz |-> 15],
     mixed_drink      |-> [abv |-> 400, volume_oz |-> 15],
     mixed_drink_diet |-> [abv |-> 400, volume_oz |-> 15]]

\* Form values: request.form.get returns a string, or None for an absent field.
FormTokens == {"None", "", "abc", "0.5", "2.5", "0", "2", "3", "5.0", "12", "-1"}

\* `if count_str`: None and the empty string are false
Truthy(tok) == tok \notin {"None", ""}

\* float(tok): the value in tenths, or ok = FALSE for TypeError / ValueError
PyFloat(tok) ==
    CASE tok = "0.5" -> [ok |-> TRUE, v |-> 5]
      [] tok = "2.5" -> [ok |-> TRUE, v |-> 25]
      [] tok = "0"   -> [ok |-> TRUE, v |-> 0]
      [] tok = "2"   -> [ok |-> TRUE, v |-> 20]
      [] tok = "3"   -> [ok |-> TRUE, v |-> 30]
      [] tok = "5.0" -> [ok |-> TRUE, v |-> 50]
      [] tok = "12"  -> [ok |-> TRUE, v |-> 120]
      [] tok = "-1"  -> [ok |-> TRUE, v |-> -10]
      [] OTHER       -> [ok |-> FALSE, v |-> 0]

\* int(tok): the value, or ok = FALSE for ValueError (int("2.5") raises)
PyInt(tok) ==
    CASE tok = "0"   -> [ok |-> TRUE, v |-> 0]
      [] tok = "2"   -> [ok |-> TRUE, v |-> 2]
      [] tok = "3"   -> [ok |-> TRUE, v |-> 3]
      [] tok = "12"  -> [ok |-> TRUE, v |-> 12]
      [] tok = "-1"  -> [ok |-> TRUE, v |-> -1]
      [] OTHER       -> [ok |-> FALSE, v |-> 0]

\* round(volume_oz * 0.0295735 * (abv / 100) * 789 * 7) for abv, volume_oz in
\* tenths: q * 1633344405 / 10^11 with q = abv * volume_oz, in limbs of 10^4
\* so that no product leaves 32 bits.
calculate_calories(abv, volume_oz) ==
    LET q   == abv * volume_oz
        m   == IF q < 0 THEN -q ELSE q
        a0  == m * 4405
        a1  == (m * 3334) + (a0 \div 10000)
        a2  == (m * 16) + (a1 \div 10000)
        low == (a1 % 10000) * 10000 + (a0 % 10000)
        int == a2 \div 1000
        top == a2 % 1000
        r   == IF top > 500 \/ (top = 500 /\ low > 0) THEN int + 1
               ELSE IF top = 500 /\ low = 0 /\ int % 2 = 1 THEN int + 1
               ELSE int
    IN  IF q < 0 THEN -r ELSE r

\* the count of a mixed drink: [ok, v], ok = FALSE when ValueError is raised
MixedCountOrOne(count_str) ==
    IF Truthy(count_str) /\ PyFloat(count_str).ok /\ PyFloat(count_str).v >= 10
       /\ PyInt(count_str).ok
    THEN PyInt(count_str) ELSE [ok |-> TRUE, v |-> 1]

MixedCount(count_str) ==
    IF ~Truthy(count_str) THEN [ok |-> TRUE, v |-> 1]
    ELSE IF ~PyFloat(count_str).ok THEN [ok |-> FALSE, v |-> 0]
    ELSE IF PyFloat(count_str).v >= 10 THEN PyInt(count_str)
    ELSE [ok |-> TRUE, v |-> 1]

CaloriesFromFormula(drink_type, abv, volume_oz) ==
    calculate_calories(abv, volume_oz)
        + (IF drink_type = "mixed_drink" THEN 50 ELSE 0)
        + (IF drink_type = "beer" THEN 20 ELSE 0)
        + (IF drink_type = "wine" THEN 30 ELSE 0)
        + (IF drink_type = "ipa" THEN 75 ELSE 0)

CaloriesPerServing(drink_type, abv, volume_oz) ==
    LET base == IF drink_type \in {"shot_spirit", "mixed_drink", "mixed_drink_diet"}
                THEN 100 ELSE calculate_calories(abv, volume_oz)
    IN  base + (IF drink_type = "mixed_drink" THEN 50 ELSE 0)
             + (IF drink_type = "beer" THEN 20 ELSE 0)
             + (IF drink_type = "wine" THEN 30 ELSE 0)
             + (IF drink_type = "ipa" THEN 75 ELSE 0)

\* form: [drink_type, custom_abv, liquid_ounces]
add_drink_result(c, session_id, form) ==
    LET user_email == get_current_user_email(c)
        drink_type == form.drink_type
        is_mixed   == drink_type \in {"mixed_drink", "mixed_drink_diet"}
        preset     == DRINK_PRESETS[drink_type]
        mixed      == MixedCount(form.liquid_ounces)
        custom     == ~is_mixed /\ drink_type # "shot_spirit"
        abv        == IF custom THEN PyFloat(form.custom_abv).v ELSE preset.abv
        volume_oz  == IF custom THEN PyFloat(form.liquid_ounces).v
                      ELSE preset.volume_oz
        count      == IF is_mixed THEN mixed.v ELSE 1
        calories   == CaloriesPerServing(drink_type, abv, volume_oz)
        drink_id   == nextDrink
        inserted   == Insert(drinks, drink_id,
                             [session_id |-> session_id, calories |-> calories,
                              count |-> count])
    IN  IF user_email = NoneEmail THEN Out(401, Err("Not logged in"))
        ELSE IF SessionMissingOrForeign(session_id, user_email)
        THEN Out(404, Err("Session not found or unauthorized"))
        ELSE IF drink_type \notin DOMAIN DRINK_PRESETS
        THEN Out(400, Err("Invalid drink type"))
        ELSE IF is_mixed /\ ~mixed.ok
        THEN Out(400, Err("Invalid number for shots count"))
        ELSE IF custom /\ ~(PyFloat(form.custom_abv).ok /\ PyFloat(form.liquid_ounces).ok)
        THEN Out(400, Err("Missing or Invalid number for ABV or Volume"))
        ELSE [Out(200, [message |-> "Drink added",
                        drink |-> [id |-> drink_id, calories |-> calories,
                                   count |-> count]])
              EXCEPT
                !.drinks = inserted,
                !.nextDrink = nextDrink + 1,
                !.sessions = SetTotal(sessions, session_id,
                                      update_session_calories(inserted, session_id))]

add_drink(c, session_id, form) ==
    /\ IF add_drink_result(c, session_id, form).status = 200
       THEN nextDrink <= MaxDrinks ELSE TRUE
    /\ Apply(add_drink_result(c, session_id, form))

\* `if new_count <= 0`: the decrement deletes the row
DrinkRemovedBelowZero(action, new_count) == action = "decrement" /\ new_count < 0

DrinkRemoved(action, new_count) == action = "decrement" /\ new_count <= 0

update_drink_result(c, session_id, drink_id, action) ==
    LET user_email == get_current_user_email(c)
        found == /\ drink_id \in DOMAIN drinks
                 /\ drinks[drink_id].session_id = session_id
                 /\ session_id \in DOMAIN sessions
                 /\ sessions[session_id].user_email = user_email
        current_count == drinks[drink_id].count
        calories      == drinks[drink_id].calories
        new_count     == IF action = "increment" THEN current_count + 1
                         ELSE current_count - 1
        removed       == DrinkRemoved(action, new_count)
        written       == IF removed THEN Remove(drinks, {drink_id})
                         ELSE [drinks EXCEPT ![drink_id].count = new_count]
        body          == IF removed
                         THEN [message |-> "Drink removed", removed_id |-> drink_id]
                         ELSE [id |-> drink_id, calories |-> calories,
                               count |-> new_count]
    IN  IF user_email = NoneEmail THEN Out(401, Err("Not logged in"))
        ELSE IF ~found
        THEN Out(404, Err("Drink ID not found in session or unauthorized"))
        ELSE IF ~ValidAction(action)
        THEN Out(400, Err("Invalid action specified"))
        ELSE [Out(200, body) EXCEPT
                !.drinks = written,
                !.sessions = SetTotal(sessions, session_id,
                                      update_session_calories(written, session_id))]

update_drink(c, session_id, drink_id, action) ==
    /\ IF action = "increment"
          /\ update_drink_result(c, session_id, drink_id, action).status = 200
       THEN drinks[drink_id].count < MaxCount ELSE TRUE
    /\ Apply(update_drink_result(c, session_id, drink_id, action))

\* ------------------------------------------- drink handlers, step by step
\* add_drink and update_drink as the statements they run on the connection of
\* their own request (get_db: one connection per request).  The store takes
\* its write lock for a connection at that connection's first INSERT, UPDATE
\* or DELETE and holds it until commit or close; reads outside a transaction
\* see the committed tables, reads inside see the transaction's own writes.

\* The drinks rows a SELECT on the connection of worker w returns.
CommittedDrinks(w) == drinks

VisibleDrinks(w) == IF writer.holder = w THEN writer.drinks ELSE drinks

LockFree == writer.holder = "none"

OthersInFlight(w) == \E v \in Workers \ {w} : conn[v].pc # "idle"

Respond(w, status) ==
    [conn EXCEPT ![w] = [IdleConn EXCEPT !.overlap = conn[w].overlap /\ status = 200]]

\* add_drink up to the INSERT: the ownership SELECT, the form, the new uuid
add_drink_check(w, c, session_id, form) ==
    LET r == add_drink_result(c, session_id, form) IN
    /\ conn[w].pc = "idle"
    /\ IF r.status = 200
       THEN /\ nextDrink <= MaxDrinks
            /\ nextDrink' = nextDrink + 1
            /\ conn' = [conn EXCEPT ![w] =
                          [pc |-> "insert", kind |-> "add",
                           session_id |-> session_id, drink_id |-> nextDrink,
                           action |-> "None",
                           calories |-> r.drinks[nextDrink].calories,
                           count |-> r.drinks[nextDrink].count,
                           new_total |-> 0, overlap |-> OthersInFlight(w)]]
       ELSE /\ conn' = [conn EXCEPT ![w] = IdleConn]
            /\ UNCHANGED nextDrink
    /\ UNCHANGED <<users, sessions, drinks, exercises, flask, nextSession,
                   nextExercise, now, writer>>

\* INSERT INTO drinks: opens the transaction of this connection
add_drink_insert(w) ==
    /\ conn[w].pc = "insert"
    /\ LockFree
    /\ writer' = [holder |-> w,
                  drinks |-> Insert(drinks, conn[w].drink_id,
                                    [session_id |-> conn[w].session_id,
                                     calories |-> conn[w].calories,
                                     count |-> conn[w].count]),
                  sessions |-> sessions]
    /\ conn' = [conn EXCEPT ![w].pc = "select"]
    /\ UNCHANGED <<users, sessions, drinks, exercises, flask, nextSession,
                   nextDrink, nextExercise, now>>

\* update_drink up to its write: the joined SELECT of the row and the action
update_drink_select(w, c, session_id, drink_id, action) ==
    LET r == update_drink_result(c, session_id, drink_id, action) IN
    /\ conn[w].pc = "idle"
    /\ IF r.status = 200
       THEN /\ action = "increment" => drinks[drink_id].count < MaxCount
            /\ conn' = [conn EXCEPT ![w] =
                          [pc |-> "write", kind |-> "update",
                           session_id |-> session_id, drink_id |-> drink_id,
                           action |-> action, calories |-> 0,
                           count |-> drinks[drink_id].count,
                           new_total |-> 0, overlap |-> OthersInFlight(w)]]
       ELSE conn' = [conn EXCEPT ![w] = IdleConn]
    /\ UNCHANGED <<users, sessions, drinks, exercises, flask, nextSession,
                   nextDrink, nextExercise, now, writer>>

\* UPDATE drinks SET count = ? WHERE id = ? / DELETE FROM drinks WHERE id = ?
\* with the count read by the SELECT; a row that is gone by now matches nothing
update_drink_write(w) ==
    LET d         == conn[w].drink_id
        new_count == IF conn[w].action = "increment" THEN conn[w].count + 1
                     ELSE conn[w].count - 1
        written   == IF DrinkRemoved(conn[w].action, new_count)
                     THEN Remove(drinks, {d})
                     ELSE IF d \in DOMAIN drinks
                     THEN [drinks EXCEPT ![d].count = new_count]
                     ELSE drinks
    IN  /\ conn[w].pc = "write"
        /\ LockFree
        /\ writer' = [holder |-> w, drinks |-> written, sessions |-> sessions]
        /\ conn' = [conn EXCEPT ![w].pc = "select"]
        /\ UNCHANGED <<users, sessions, drinks, exercises, flask, nextSession,
                       nextDrink, nextExercise, now>>

\* update_session_calories: SELECT calories, count FROM drinks and the sum
recalc_select(w) ==
    /\ conn[w].pc = "select"
    /\ conn' = [conn EXCEPT ![w].pc = "update",
                            ![w].new_total =
                                update_session_calories(VisibleDrinks(w),
                                                        conn[w].session_id)]
    /\ UNCHANGED <<users, sessions, drinks, exercises, flask, nextSession,
                   nextDrink, nextExercise, now, writer>>

\* update_session_calories: UPDATE sessions SET total_calories = ?
recalc_update(w) ==
    /\ conn[w].pc = "update"
    /\ writer.holder = w
    /\ writer' = [writer EXCEPT !.sessions =
                      SetTotal(writer.sessions, conn[w].session_id,
                               conn[w].new_total)]
    /\ conn' = [conn EXCEPT ![w].pc = "commit"]
    /\ UNCHANGED <<users, sessions, drinks, exercises, flask, nextSession,
                   nextDrink, nextExercise, now>>

\* update_session_calories: db.commit(), then the 200 response
recalc_commit(w) ==
    /\ conn[w].pc = "commit"
    /\ writer.holder = w
    /\ drinks' = writer.drinks
    /\ sessions' = writer.sessions
    /\ writer' = NoWriter
    /\ conn' = Respond(w, 200)
    /\ UNCHANGED <<users, exercises, flask, nextSession, nextDrink,
                   nextExercise, now>>

\* "database is locked": the write finds the lock taken, or the commit finds
\* the store busy, for longer than the connection waits.  `except Exception`
\* answers 500 and closing the connection rolls its transaction back.
request_fails(w) ==
    /\ \/ conn[w].pc \in {"insert", "write"} /\ ~LockFree
       \/ conn[w].pc = "commit"
    /\ writer' = IF writer.holder = w THEN NoWriter ELSE writer
    /\ conn' = Respond(w, 500)
    /\ UNCHANGED <<users, sessions, drinks, exercises, flask, nextSession,
                   nextDrink, nextExercise, now>>

\* -------------------------------------------------------- exercise handlers
minute_change == 10

\* met * weight_kg * (minutes / 60), rounded; met2 is twice the MET value
calculate_burned_calories(met2, weight_kg, minutes) ==
    PyRound(met2 * weight_kg * minutes, 120)

\* The JSON value sent as "minutes": a number of minutes, a string that is no
\* number, the empty string, or nothing.
Minutes(v)    == [kind |-> "num", v |-> v]
TextMinutes   == [kind |-> "text", v |-> 0]
EmptyMinutes  == [kind |-> "empty", v |-> 0]
AbsentMinutes == [kind |-> "absent", v |-> 0]

\* `not minutes_raw`
MinutesFalsy(m) == m.kind \in {"absent", "empty"} \/ (m.kind = "num" /\ m.v = 0)

\* data: [exercise_type, minutes]
add_exercise_result(c, session_id, data) ==
    LET user_email  == get_current_user_email(c)
        metrics     == users[user_email].metrics
        minutes     == data.minutes.v
        met2        == EXERCISE_METS2[data.exercise_type]
        calories_burned == calculate_burned_calories(met2, metrics.weight_kg, minutes)
        exercise_id == nextExercise
    IN  IF user_email = NoneEmail THEN Out(401, Err("Not logged in"))
        ELSE IF SessionMissingOrForeign(session_id, user_email)
        THEN Out(404, Err("Session not found or unauthorized"))
        ELSE IF user_email \notin DOMAIN users \/ metrics.isnull
        THEN Out(400, Err("Metrics not set. Please set metrics before logging exercise."))
        ELSE IF data.exercise_type \notin ExerciseTypes \/ MinutesFalsy(data.minutes)
        THEN Out(400, Err("Invalid exercise type or minutes"))
        ELSE IF data.minutes.kind = "text"           \* float() raises ValueError
        THEN Out(400, Err("Invalid format for minutes"))
        ELSE IF minutes <= 0
        THEN Out(400, Err("Minutes must be a positive number"))
        ELSE IF ~metrics.numeric                     \* float * str: TypeError
        THEN Out(500, Err("Failed to add exercise"))
        ELSE [Out(200, [message |-> "Exercise added",
                        exercise |-> [id |-> exercise_id, type |-> data.exercise_type,
                                      minutes |-> minutes,
                                      calories_burned |-> calories_burned]])
              EXCEPT
                !.exercises = Insert(exercises, exercise_id,
                                     [session_id |-> session_id,
                                      type |-> data.exercise_type,
                                      minutes |-> minutes,
                                      calories_burned |-> calories_burned]),
                !.nextExercise = nextExercise + 1]

add_exercise(c, session_id, data) ==
    /\ IF add_exercise_result(c, session_id, data).status = 200
       THEN nextExercise <= MaxExercises ELSE TRUE
    /\ Apply(add_exercise_result(c, session_id, data))

\* `if new_minutes <= 0`: the step deletes the row
ExerciseRemovedBelowZero(new_minutes) == new_minutes < 0

ExerciseRemoved(new_minutes) == new_minutes <= 0

update_exercise_result(c, session_id, exercise_id, action) ==
    LET user_email == get_current_user_email(c)
        found == /\ exercise_id \in DOMAIN exercises
                 /\ exercises[exercise_id].session_id = session_id
                 /\ session_id \in DOMAIN sessions
                 /\ sessions[session_id].user_email = user_email
        metrics         == users[user_email].metrics
        current_minutes == exercises[exercise_id].minutes
        met2            == EXERCISE_METS2[exercises[exercise_id].type]
        new_minutes     == IF action = "increment"
                           THEN current_minutes + minute_change
                           ELSE current_minutes - minute_change
        new_calories_burned ==
            calculate_burned_calories(met2, metrics.weight_kg, new_minutes)
    IN  IF user_email = NoneEmail THEN Out(401, Err("Not logged in"))
        ELSE IF ~found
        THEN Out(404, Err("Exercise not found in session or unauthorized"))
        ELSE IF metrics.isnull                       \* json.loads(None): TypeError
        THEN Out(500, Err("unhandled"))
        ELSE IF ~ValidAction(action)
        THEN Out(400, Err("Invalid action specified"))
        ELSE IF ExerciseRemoved(new_minutes)
        THEN [Out(200, [message |-> "Exercise removed", removed_id |-> exercise_id])
              EXCEPT !.exercises = Remove(exercises, {exercise_id})]
        ELSE IF ~metrics.numeric                     \* float * str: TypeError
        THEN Out(500, Err("Internal server error"))
        ELSE [Out(200, [id |-> exercise_id, message |-> "Exercise updated",
                        minutes |-> new_minutes,
                        calories_burned |-> new_calories_burned])
              EXCEPT !.exercises =
                       [exercises EXCEPT ![exercise_id].minutes = new_minutes,
                                         ![exercise_id].calories_burned =
                                              new_calories_burned]]

update_exercise(c, session_id, exercise_id, action) ==
    /\ IF action = "increment"
          /\ update_exercise_result(c, session_id, exercise_id, action).status = 200
       THEN exercises[exercise_id].minutes < minute_change * MaxSteps ELSE TRUE
    /\ Apply(update_exercise_result(c, session_id, exercise_id, action))

\* ---------------------------------------------------------------- dashboard
\* round((remaining * 60) / (met * weight_kg)), or 0 when nothing remains
ExerciseTime(remaining, met2, weight_kg) ==
    IF remaining > 0 THEN PyRound(remaining * 120, met2 * weight_kg) ELSE 0

get_dashboard_data_result(c, session_id) ==
    LET user_email == get_current_user_email(c)
        metrics    == users[user_email].metrics
        total_calories_consumed == sessions[session_id].total_calories
        total_calories_burned   == TotalBurnedPy(exercises, session_id)
        net_calories == total_calories_consumed - total_calories_burned
        remaining    == IF net_calories > 0 THEN net_calories ELSE 0
    IN  IF user_email = NoneEmail THEN Out(401, Err("Not logged in"))
        ELSE IF SessionMissingOrForeign(session_id, user_email)
        THEN Out(404, Err("Session not found or unauthorized"))
        ELSE IF user_email \notin DOMAIN users \/ metrics.isnull
        THEN Out(400, Err("Metrics not set"))
        ELSE IF remaining > 0 /\ (~metrics.numeric \/ metrics.weight_kg = 0)
        THEN Out(500, Err("unhandled"))   \* TypeError / ZeroDivisionError
        ELSE Out(200, [total_calories_consumed |-> total_calories_consumed,
                       total_calories_burned |-> total_calories_burned,
                       net_calories |-> net_calories,
                       drinks |-> DrinksOf(drinks, session_id),
                       logged_exercises |-> ExercisesOf(exercises, session_id),
                       exercise_times |->
                          [t \in ExerciseTypes |->
                             ExerciseTime(remaining, EXERCISE_METS2[t],
                                          metrics.weight_kg)]])

get_dashboard_data(c, session_id) == Apply(get_dashboard_data_result(c, session_id))

\* ------------------------------------------------------------ specifications

NextAuth ==
    \/ \E c \in Clients, e \in Emails, p \in Passwords : register(c, e, p)
    \/ \E c \in Clients, e \in Emails, p \in Passwords : login(c, e, p)
    \/ \E c \in Clients : logout(c)
    \/ \E c \in Clients : get_user_status(c)
    \/ \E c \in Clients, t \in 0..MaxClock : create_session(c, t)
    \/ \E c \in Clients, s \in SessionIds : delete_session(c, s)
    \/ \E c \in Clients : get_sessions(c)

SpecAuth == Init /\ [][NextAuth]_vars

\* One browser, one user, drinks only.
DrinkForms ==
    {[drink_type |-> "mixed_drink", custom_abv |-> "None", liquid_ounces |-> t] :
        t \in {"2", "abc", "0.5"}}
    \cup {[drink_type |-> "beer", custom_abv |-> "5.0", liquid_ounces |-> "12"],
          [drink_type |-> "beer", custom_abv |-> "None", liquid_ounces |-> "12"],
          [drink_type |-> "cider", custom_abv |-> "5.0", liquid_ounces |-> "12"]}

NextDrinks ==
    \/ register("k1", "a@x", "p1")
    \/ create_session("k1", 0)
    \/ \E s \in SessionIds : delete_session("k1", s)
    \/ \E s \in SessionIds, f \in DrinkForms : add_drink("k1", s, f)
    \/ \E s \in SessionIds, d \in DrinkIds, a \in Actions :
          update_drink("k1", s, d, a)

SpecDrinks == Init /\ [][NextDrinks]_vars

\* One browser, one user, exercises only.
ExerciseForms ==
    {[exercise_type |-> "running", minutes |-> m] :
        m \in {Minutes(10), Minutes(15), Minutes(0), Minutes(-5), TextMinutes,
               EmptyMinutes, AbsentMinutes}}
    \cup {[exercise_type |-> "walking", minutes |-> Minutes(30)],
          [exercise_type |-> "yoga", minutes |-> Minutes(10)]}

NextExercises ==
    \/ register("k1", "a@x", "p1")
    \/ \E d \in MetricsInputs(WeightInputs) : set_user_metrics("k1", d)
    \/ create_session("k1", 0)
    \/ \E s \in SessionIds : delete_session("k1", s)
    \/ \E s \in SessionIds, f \in ExerciseForms : add_exercise("k1", s, f)
    \/ \E s \in SessionIds, x \in ExerciseIds, a \in Actions :
          update_exercise("k1", s, x, a)

SpecExercises == Init /\ [][NextExercises]_vars

\* One browser, one user, one session; two drink requests at a time.
ConcurrentDrinkForms ==
    {[drink_type |-> "mixed_drink", custom_abv |-> "None", liquid_ounces |-> "2"],
     [drink_type |-> "shot_spirit", custom_abv |-> "None", liquid_ounces |-> "None"]}

NextConcurrent ==
    \/ LockFree /\ register("k1", "a@x", "p1")
    \/ LockFree /\ sessions = << >> /\ create_session("k1", 0)
    \/ \E w \in Workers, s \in SessionIds, f \in ConcurrentDrinkForms :
          add_drink_check(w, "k1", s, f)
    \/ \E w \in Workers : add_drink_insert(w)
    \/ \E w \in Workers, s \in SessionIds, d \in DrinkIds, a \in Actions :
          update_drink_select(w, "k1", s, d, a)
    \/ \E w \in Workers : update_drink_write(w)
    \/ \E w \in Workers : recalc_select(w)
    \/ \E w \in Workers : recalc_update(w)
    \/ \E w \in Workers : recalc_commit(w)
    \/ \E w \in Workers : request_fails(w)

SpecConcurrent == Init /\ [][NextConcurrent]_vars

\* Every handler, one browser, two users.
MainDrinkForms ==
    {[drink_type |-> "mixed_drink", custom_abv |-> "None", liquid_ounces |-> "None"],
     [drink_type |-> "mixed_drink", custom_abv |-> "None", liquid_ounces |-> "abc"]}

MainExerciseForms ==
    {[exercise_type |-> "running", minutes |-> Minutes(10)],
     [exercise_type |-> "running", minutes |-> Minutes(0)]}

Next ==
    \/ \E e \in Emails : register("k1", e, "p1")
    \/ \E e \in Emails, p \in Passwords : login("k1", e, p)
    \/ logout("k1")
    \/ get_user_status("k1")
    \/ \E d \in MetricsInputs(WeightInputs) : set_user_metrics("k1", d)
    \/ get_sessions("k1")
    \/ create_session("k1", 0)
    \/ \E s \in SessionIds : delete_session("k1", s)
    \/ \E s \in SessionIds, f \in MainDrinkForms : add_drink("k1", s, f)
    \/ \E s \in SessionIds, d \in DrinkIds, a \in Actions : update_drink("k1", s, d, a)
    \/ \E s \in SessionIds, f \in MainExerciseForms : add_exercise("k1", s, f)
    \/ \E s \in SessionIds, x \in ExerciseIds, a \in Actions :
          update_exercise("k1", s, x, a)
    \/ \E s \in SessionIds : get_dashboard_data("k1", s)

Spec == Init /\ [][Next]_vars

\* ------------------------------------------------------------------- claims
\* States in which no session has been deleted: a row that is gone was removed
\* by a decrement.
NoSessionDeleted == Cardinality(DOMAIN sessions) = nextSession - 1

Owns(c, sid) ==
    /\ get_current_user_email(c) # NoneEmail
    /\ sid \in DOMAIN sessions
    /\ sessions[sid].user_email = get_current_user_email(c)

Unchanged(r) == Stored(r) = Stored(Out(0, Err("")))

AllDrinkForms ==
    {[drink_type |-> t, custom_abv |-> "5.0", liquid_ounces |-> o] :
        t \in {"mixed_drink", "mixed_drink_diet", "shot_spirit", "beer"},
        o \in FormTokens}

RECURSIVE DrinkSum(_)
\* calories * count summed over the drink ids in D
DrinkSum(D) ==
    IF D = {} THEN 0
    ELSE LET d == CHOOSE x \in D : TRUE
         IN  drinks[d].calories * drinks[d].count + DrinkSum(D \ {d})

\* C1: in every state reached by completed requests, every existing session's
\* cached total_calories is the sum of calories * count over the drink rows
\* that belong to it (0 when it has none).
C1_TotalMatchesDrinks ==
    \A s \in DOMAIN sessions :
        sessions[s].total_calories =
            DrinkSum({d \in DOMAIN drinks : drinks[d].session_id = s})

\* Two sessions hold a drink each, one of them with a count above 1.
C1_Witness ==
    \E s, t \in DOMAIN sessions, d, e \in DOMAIN drinks :
        /\ s # t /\ drinks[d].session_id = s /\ drinks[e].session_id = t
        /\ drinks[d].count > 1
        /\ sessions[s].total_calories > sessions[t].total_calories
        /\ sessions[t].total_calories > 0

\* C2: every stored drink row has count >= 1; whatever the form, add_drink
\* stores no row with count < 1; a decrement that would leave count <= 0
\* removes the row.
C2_CountAtLeastOne ==
    /\ \A d \in DOMAIN drinks : drinks[d].count >= 1
    /\ \A s \in SessionIds, f \in AllDrinkForms :
          LET r == add_drink_result("k1", s, f)
          IN  \A d \in DOMAIN r.drinks : r.drinks[d].count >= 1
    /\ \A s \in SessionIds, d \in DOMAIN drinks :
          LET r == update_drink_result("k1", s, d, "decrement")
          IN  r.status = 200 =>
                 IF drinks[d].count - 1 <= 0 THEN d \notin DOMAIN r.drinks
                 ELSE r.drinks[d].count = drinks[d].count - 1

\* A drink has been removed by a decrement while another one is stored.
C2_Witness ==
    /\ NoSessionDeleted
    /\ \E d \in 1..(nextDrink - 1) : d \notin DOMAIN drinks
    /\ drinks # << >>

\* C3: every stored exercise row has minutes > 0; add_exercise by a user with
\* metrics set on an own session answers minutes <= 0 with 400 and stores
\* nothing; update_exercise removes the row when the stepped value is <= 0.
C3_MinutesPositive ==
    /\ \A e \in DOMAIN exercises : exercises[e].minutes > 0
    /\ \A s \in SessionIds, v \in {0, -5, -10} :
          LET r == add_exercise_result("k1", s, [exercise_type |-> "running",
                                                 minutes |-> Minutes(v)])
          IN  Owns("k1", s) => r.status = 400 /\ Unchanged(r)
    /\ \A s \in SessionIds, e \in DOMAIN exercises, a \in {"increment", "decrement"} :
          LET r == update_exercise_result("k1", s, e, a)
              stepped == IF a = "increment" THEN exercises[e].minutes + minute_change
                         ELSE exercises[e].minutes - minute_change
          IN  /\ r.status = 200 /\ stepped <= 0 => e \notin DOMAIN r.exercises
              /\ \A x \in DOMAIN r.exercises : r.exercises[x].minutes > 0

\* An exercise has been removed by a decrement while another one, of 5
\* minutes, is one decrement away from removal.
C3_Witness ==
    /\ NoSessionDeleted
    /\ \E e \in 1..(nextExercise - 1) : e \notin DOMAIN exercises
    /\ \E e \in DOMAIN exercises : exercises[e].minutes = 5

OwnsDrink(c, sid, d) ==
    Owns(c, sid) /\ d \in DOMAIN drinks /\ drinks[d].session_id = sid

OwnsExercise(c, sid, e) ==
    Owns(c, sid) /\ e \in DOMAIN exercises /\ exercises[e].session_id = sid

\* The drink half of C4: increment stores count + 1 and keeps the row;
\* decrement removes the row and reports removed_id exactly when
\* count - 1 <= 0, and otherwise stores and reports count - 1.
C4_DrinkPart ==
    \A s \in SessionIds, d \in DrinkIds :
        OwnsDrink("k1", s, d) =>
            LET inc == update_drink_result("k1", s, d, "increment")
                dec == update_drink_result("k1", s, d, "decrement")
                n   == drinks[d].count
            IN  /\ inc.status = 200
                /\ d \in DOMAIN inc.drinks
                /\ inc.drinks[d].count = n + 1
                /\ inc.body.count = n + 1
                /\ dec.status = 200
                /\ IF n - 1 <= 0
                   THEN d \notin DOMAIN dec.drinks /\ dec.body.removed_id = d
                   ELSE /\ d \in DOMAIN dec.drinks
                        /\ dec.drinks[d].count = n - 1
                        /\ dec.body.count = n - 1

\* The exercise half of C4, with minutes and the step of 10.
C4_ExercisePart ==
    \A s \in SessionIds, e \in ExerciseIds :
        OwnsExercise("k1", s, e) =>
            LET inc == update_exercise_result("k1", s, e, "increment")
                dec == update_exercise_result("k1", s, e, "decrement")
                m   == exercises[e].minutes
            IN  /\ inc.status = 200
                /\ e \in DOMAIN inc.exercises
                /\ inc.exercises[e].minutes = m + 10
                /\ inc.body.minutes = m + 10
                /\ dec.status = 200
                /\ IF m - 10 <= 0
                   THEN e \notin DOMAIN dec.exercises /\ dec.body.removed_id = e
                   ELSE /\ e \in DOMAIN dec.exercises
                        /\ dec.exercises[e].minutes = m - 10
                        /\ dec.body.minutes = m - 10

\* C4: for an existing drink (exercise) owned by the caller, increment always
\* leaves the row in existence with count + 1 (minutes + 10); decrement
\* removes the row and reports removed_id exactly when count - 1 <= 0
\* (minutes - 10 <= 0), and otherwise stores and reports the new quantity.
C4_IncrementDecrement == C4_DrinkPart /\ C4_ExercisePart

\* C5: update_drink and update_exercise on an existing owned row with an
\* action other than increment or decrement (absent included) answer 400
\* and leave every table and cookie as it was.
C5_InvalidActionRejected ==
    \A s \in SessionIds, a \in Actions \ {"increment", "decrement"} :
        /\ \A d \in DrinkIds :
              OwnsDrink("k1", s, d) =>
                  /\ update_drink_result("k1", s, d, a).status = 400
                  /\ Unchanged(update_drink_result("k1", s, d, a))
        /\ \A e \in ExerciseIds :
              OwnsExercise("k1", s, e) =>
                  /\ update_exercise_result("k1", s, e, a).status = 400
                  /\ Unchanged(update_exercise_result("k1", s, e, a))

\* The caller owns a drink row of count 1 and an exercise row, and the stored
\* weight is no number.
C5_Witness ==
    \E s, t \in SessionIds, d \in DrinkIds, e \in ExerciseIds :
        /\ OwnsDrink("k1", s, d) /\ drinks[d].count = 1
        /\ OwnsExercise("k1", t, e)
        /\ ~users[get_current_user_email("k1")].metrics.numeric

\* Session ids that were handed out and whose row is gone.
DeletedSessions == (1..(nextSession - 1)) \ DOMAIN sessions

\* What a successful delete_session(s) by c leaves behind.
DeleteEffect(c, s) ==
    LET r == delete_session_result(c, s) IN
    r.status = 200 =>
        /\ s \notin DOMAIN r.sessions
        /\ \A d \in DOMAIN r.drinks : r.drinks[d].session_id # s
        /\ \A e \in DOMAIN r.exercises : r.exercises[e].session_id # s
        /\ flask[c].current_session_id = s =>
              r.flask[c].current_session_id = NoneId
        /\ \A t \in DOMAIN sessions \ {s} :
              t \in DOMAIN r.sessions /\ r.sessions[t] = sessions[t]
        /\ \A d \in DOMAIN drinks :
              drinks[d].session_id # s =>
                  d \in DOMAIN r.drinks /\ r.drinks[d] = drinks[d]
        /\ \A e \in DOMAIN exercises :
              exercises[e].session_id # s =>
                  e \in DOMAIN r.exercises /\ r.exercises[e] = exercises[e]
        /\ r.users = users

\* C6: a successful delete_session(id) removes the session row and every
\* drink and exercise row of that session, clears the caller's pointer if it
\* pointed to id and leaves the rows of all other sessions as they were; a
\* deleted id stays deleted, and get_dashboard_data(id) by a logged-in user
\* answers 404 for it.
C6_DeleteCascades ==
    /\ [](\A s \in SessionIds : DeleteEffect("k1", s))
    /\ [](\A s \in DeletedSessions :
             /\ \A d \in DOMAIN drinks : drinks[d].session_id # s
             /\ \A e \in DOMAIN exercises : exercises[e].session_id # s
             /\ get_current_user_email("k1") # NoneEmail =>
                   get_dashboard_data_result("k1", s).status = 404)
    /\ [][\A s \in DeletedSessions : s \notin DOMAIN sessions']_vars

\* A session has been deleted, rows are gone with it, and the caller still
\* owns another session that kept its drink and its exercise.
C6_Witness ==
    /\ DeletedSessions # {}
    /\ Cardinality(DOMAIN drinks) < nextDrink - 1
    /\ Cardinality(DOMAIN exercises) < nextExercise - 1
    /\ \E s \in SessionIds, d \in DrinkIds, e \in ExerciseIds :
          OwnsDrink("k1", s, d) /\ OwnsExercise("k1", s, e)

AllExerciseForms ==
    {[exercise_type |-> t, minutes |-> m] :
        t \in {"running", "yoga"},
        m \in {Minutes(10), Minutes(0), TextMinutes, AbsentMinutes}}

\* The responses of the six session-scoped handlers to client c naming
\* session s, over every row id and input.
SessionScoped(c, s) ==
    {delete_session_result(c, s), get_dashboard_data_result(c, s)}
    \cup {add_drink_result(c, s, f) : f \in DrinkForms}
    \cup {add_exercise_result(c, s, f) : f \in AllExerciseForms}
    \cup {update_drink_result(c, s, d, a) : d \in DrinkIds, a \in Actions}
    \cup {update_exercise_result(c, s, e, a) : e \in ExerciseIds, a \in Actions}

\* C7: a logged-in user naming a session that does not exist, or that another
\* user owns, gets 404 from every session-scoped handler, and nothing is
\* written; the two cases get the same responses.
C7_NotFoundOrUnauthorized ==
    get_current_user_email("k1") # NoneEmail =>
        /\ \A s \in SessionIds :
              ~Owns("k1", s) =>
                  \A r \in SessionScoped("k1", s) : r.status = 404 /\ Unchanged(r)
        /\ \A s, t \in SessionIds :
              ~Owns("k1", s) /\ ~Owns("k1", t) =>
                  {r.body : r \in SessionScoped("k1", s)} =
                  {r.body : r \in SessionScoped("k1", t)}

\* The caller is logged in, another user's session holds a drink and an
\* exercise, and another session id names no row.
C7_Witness ==
    /\ get_current_user_email("k1") # NoneEmail
    /\ \E s, t \in SessionIds :
          /\ s \in DOMAIN sessions
          /\ sessions[s].user_email # get_current_user_email("k1")
          /\ \E d \in DOMAIN drinks : drinks[d].session_id = s
          /\ \E e \in DOMAIN exercises : exercises[e].session_id = s
          /\ t \notin DOMAIN sessions

\* C8: registering a registered email answers 409 and leaves the stored user
\* row and every cookie as they were; login with a password that is not the
\* stored one answers 401, for a registered and for an unknown email alike,
\* and does not touch the cookie.
C8_DuplicateAndBadLogin ==
    \A c \in Clients, e \in Emails, p \in Passwords :
        /\ e \in DOMAIN users =>
              /\ register_result(c, e, p).status = 409
              /\ Unchanged(register_result(c, e, p))
        /\ (e \notin DOMAIN users \/ users[e].password # p) =>
              \A latest \in SessionIds \cup {NoneId} :
                  /\ login_result(c, e, p, latest).status = 401
                  /\ Unchanged(login_result(c, e, p, latest))

\* One email is registered with password p1 and the other is not registered;
\* one browser is logged in with a current session and the other is logged
\* out: a second registration with p2 and a login with p2 are requests whose
\* acceptance would change a cookie or the user row.
C8_Witness ==
    /\ "a@x" \in DOMAIN users /\ users["a@x"].password = "p1"
    /\ "b@x" \notin DOMAIN users
    /\ \E c \in Clients : ~flask[c].logged_in
    /\ \E c \in Clients :
          flask[c].logged_in /\ flask[c].current_session_id # NoneId

SessionsOwnedBy(e) == {s \in DOMAIN sessions : sessions[s].user_email = e}

\* id is NoneId when e owns no session, and else a session of e of maximal date
LatestOf(e, id) ==
    IF SessionsOwnedBy(e) = {} THEN id = NoneId
    ELSE /\ id \in SessionsOwnedBy(e)
         /\ \A t \in SessionsOwnedBy(e) : sessions[t].date <= sessions[id].date

\* C9: a successful login of U sets current_session_id to a session of U of
\* maximal date, or to null when U owns none; get_user_status resolves a
\* missing current_session_id the same way, and the id it returns never names
\* a session of another user.
C9_LatestSessionResolved ==
    /\ \A c \in Clients, e \in Emails, p \in Passwords :
          \A latest \in LatestOrNone(sessions, e) :
              LET r == login_result(c, e, p, latest) IN
              r.status = 200 => LatestOf(e, r.flask[c].current_session_id)
    /\ \A c \in Clients :
          \A latest \in LatestOrNone(sessions, get_current_user_email(c)) :
              LET r  == get_user_status_result(c, latest)
                  id == r.body.current_session_id
              IN  /\ r.status = 200
                  /\ r.body.logged_in /\ flask[c].current_session_id = NoneId =>
                        /\ LatestOf(get_current_user_email(c), id)
                        /\ r.flask[c].current_session_id = id
                  /\ id \in DOMAIN sessions =>
                        sessions[id].user_email = get_current_user_email(c)

\* Two browsers are logged in as the same user, who owns an older session;
\* the newest session of all belongs to the other user; one browser points to
\* the user's session and the other has no pointer yet.
C9_Witness ==
    \E c, k \in Clients, s, t \in DOMAIN sessions :
        /\ c # k
        /\ flask[c].logged_in /\ flask[k].logged_in
        /\ flask[c].user_email = flask[k].user_email
        /\ sessions[s].user_email = flask[c].user_email
        /\ sessions[t].user_email # flask[c].user_email
        /\ sessions[t].date > sessions[s].date
        /\ flask[c].current_session_id = s
        /\ flask[k].current_session_id = NoneId

RECURSIVE BurnedSum(_)
\* calories_burned summed over the exercise ids in E
BurnedSum(E) ==
    IF E = {} THEN 0
    ELSE LET e == CHOOSE x \in E : TRUE
         IN  exercises[e].calories_burned + BurnedSum(E \ {e})

NetOf(s) ==
    sessions[s].total_calories
        - BurnedSum({e \in DOMAIN exercises : exercises[e].session_id = s})

RECURSIVE NetSum(_)
NetSum(S) ==
    IF S = {} THEN 0
    ELSE LET s == CHOOSE x \in S : TRUE IN NetOf(s) + NetSum(S \ {s})

\* C10: for every session of the caller, get_sessions reports net_calories =
\* cached total_calories minus the calories_burned of the session's exercise
\* rows (0 burned when it has none), get_dashboard_data, when it answers 200,
\* reports the same number, and grand_net_calories is the sum of net_calories
\* over the sessions get_sessions returns.
C10_NetCalories ==
    LET me == get_current_user_email("k1") IN
    me # NoneEmail =>
        \A order \in SessionsByDateDesc(sessions, me) :
            LET g == get_sessions_result("k1", order) IN
            /\ g.status = 200
            /\ {g.body.sessions[i].id : i \in DOMAIN g.body.sessions} =
                  SessionsOwnedBy(me)
            /\ Len(g.body.sessions) = Cardinality(SessionsOwnedBy(me))
            /\ \A i \in DOMAIN g.body.sessions :
                  LET entry == g.body.sessions[i]
                      dash  == get_dashboard_data_result("k1", entry.id)
                  IN  /\ entry.net_calories = NetOf(entry.id)
                      /\ dash.status = 200 =>
                            dash.body.net_calories = entry.net_calories
            /\ g.body.grand_net_calories = NetSum(SessionsOwnedBy(me))

\* The caller, with a numeric weight, owns a session with a drink and an
\* exercise and a session with a drink and no exercise; the dashboard of both
\* answers 200, with different net calories.
C10_Witness ==
    \E s, t \in SessionIds :
        /\ s # t /\ Owns("k1", s) /\ Owns("k1", t)
        /\ get_dashboard_data_result("k1", s).status = 200
        /\ get_dashboard_data_result("k1", t).status = 200
        /\ sessions[s].total_calories > 0 /\ sessions[t].total_calories > 0
        /\ \E e \in DOMAIN exercises : exercises[e].session_id = s
        /\ \A e \in DOMAIN exercises : exercises[e].session_id # t
        /\ NetOf(s) # NetOf(t)

\* ---- C11
MixedTypes == {"mixed_drink", "mixed_drink_diet"}

\* The serving-count strings by what they are: absent or empty, a number below
\* 1, not a number, a number of at least 1 that is not written as an integer,
\* an integer of at least 1.
AbsentOrEmptyCounts == {"None", ""}
BelowOneCounts      == {"0.5", "0", "-1"}
NonNumericCounts    == {"abc"}
NonIntegerCounts    == {"2.5", "5.0"}
IntegerCounts       == ("2" :> 2) @@ ("3" :> 3) @@ ("12" :> 12)

MixedForm(t, o) == [drink_type |-> t, custom_abv |-> "None", liquid_ounces |-> o]

\* add_drink answered 200 and stored one new row of session s with count n
AddedWithCount(r, s, n) ==
    /\ r.status = 200
    /\ DOMAIN r.drinks = DOMAIN drinks \cup {nextDrink}
    /\ r.drinks[nextDrink].session_id = s
    /\ r.drinks[nextDrink].count = n

\* C11 as stated: add_drink of a mixed-drink type on an own session answers
\* every invalid serving count (absent, empty, not a number, not an integer,
\* below 1) by adding the drink with count 1, never with a validation error.
C11_InvalidCountBecomesOne ==
    \A s \in SessionIds, t \in MixedTypes,
       o \in AbsentOrEmptyCounts \cup BelowOneCounts \cup NonNumericCounts
              \cup {"2.5"} :
        Owns("k1", s) => AddedWithCount(add_drink_result("k1", s, MixedForm(t, o)), s, 1)

\* C11 amended: add_drink of a mixed-drink type on an own session adds the
\* drink with count 1 when the serving count is absent, empty or a number below
\* 1, and with count n when it is the integer n >= 1; a serving count that is
\* not a number, or a number of at least 1 not written as an integer, is
\* answered 400 and nothing is stored.
C11_CountFallbackOrRejected ==
    \A s \in SessionIds, t \in MixedTypes :
        Owns("k1", s) =>
          /\ \A o \in AbsentOrEmptyCounts \cup BelowOneCounts :
                AddedWithCount(add_drink_result("k1", s, MixedForm(t, o)), s, 1)
          /\ \A o \in DOMAIN IntegerCounts :
                AddedWithCount(add_drink_result("k1", s, MixedForm(t, o)), s,
                               IntegerCounts[o])
          /\ \A o \in NonNumericCounts \cup NonIntegerCounts :
                LET r == add_drink_result("k1", s, MixedForm(t, o))
                IN  r.status = 400 /\ Unchanged(r)

\* One session holds a mixed drink stored with count 1 and another one stored
\* with count 2.
C11_Witness ==
    \E s \in DOMAIN sessions, d, e \in DOMAIN drinks :
        /\ Owns("k1", s)
        /\ drinks[d].session_id = s /\ drinks[e].session_id = s
        /\ drinks[d].calories = 150 /\ drinks[d].count = 1
        /\ drinks[e].calories = 150 /\ drinks[e].count = 2
        /\ sessions[s].total_calories = 450

\* ---- C12
\* add_drink answered 200 and stored one new row of session s with the
\* per-serving value cal
AddedWithCalories(r, s, cal) ==
    /\ r.status = 200
    /\ DOMAIN r.drinks = DOMAIN drinks \cup {nextDrink}
    /\ r.drinks[nextDrink].session_id = s
    /\ r.drinks[nextDrink].calories = cal

\* The flat-rate types with the ABV and volume fields a caller may add.
FlatForms(t) ==
    {[drink_type |-> t, custom_abv |-> a, liquid_ounces |-> o] :
        a \in {"None", "5.0"}, o \in {"None", "abc", "0.5", "2", "12"}}

\* round(volume * 0.0295735 * abv / 100 * 789 * 7) worked out by hand:
\* 12 oz at 5.0 % and 5.0 oz at 12 % give 98, 12 oz at 2.5 % gives 49, 3 oz at
\* 12 % gives 59, 12 oz at 0 % gives 0.
FormulaCases ==
    {[abv |-> "5.0", oz |-> "12",  kcal |-> 98],
     [abv |-> "12",  oz |-> "5.0", kcal |-> 98],
     [abv |-> "2.5", oz |-> "12",  kcal |-> 49],
     [abv |-> "12",  oz |-> "3",   kcal |-> 59],
     [abv |-> "0",   oz |-> "12",  kcal |-> 0]}

FormulaOffset == [beer |-> 20, wine |-> 30, ipa |-> 75]

\* C12: on an own session, whenever add_drink stores a row its per-serving
\* calories are 150 for mixed_drink, 100 for mixed_drink_diet and 100 for
\* shot_spirit whatever ABV and volume were sent, and the alcohol calories of
\* the sent ABV and volume plus 20 / 30 / 75 for beer / wine / ipa; adding a
\* mixed_drink with the integer serving count n >= 1 raises the session's
\* cached total by exactly 150 * n.
C12_PerServingCalories ==
    \A s \in SessionIds :
        Owns("k1", s) =>
          /\ \A f \in FlatForms("mixed_drink") :
                LET r == add_drink_result("k1", s, f)
                IN  r.status \in {200, 400}
                    /\ (r.status = 200 => AddedWithCalories(r, s, 150))
          /\ \A f \in FlatForms("mixed_drink_diet") :
                LET r == add_drink_result("k1", s, f)
                IN  r.status \in {200, 400}
                    /\ (r.status = 200 => AddedWithCalories(r, s, 100))
          /\ \A f \in FlatForms("shot_spirit") :
                AddedWithCalories(add_drink_result("k1", s, f), s, 100)
          /\ \A t \in DOMAIN FormulaOffset, k \in FormulaCases :
                AddedWithCalories(
                    add_drink_result("k1", s, [drink_type |-> t, custom_abv |-> k.abv,
                                               liquid_ounces |-> k.oz]),
                    s, k.kcal + FormulaOffset[t])
          /\ \A o \in DOMAIN IntegerCounts :
                LET r == add_drink_result("k1", s, MixedForm("mixed_drink", o))
                IN  r.sessions[s].total_calories =
                        sessions[s].total_calories + 150 * IntegerCounts[o]

\* One session holds a mixed drink added with count 2 (150 a serving) next to
\* a 12 oz beer at 5.0 % (118 a serving): its total is 300 + 118.
C12_Witness ==
    \E s \in DOMAIN sessions, d, e \in DOMAIN drinks :
        /\ Owns("k1", s)
        /\ drinks[d].session_id = s /\ drinks[e].session_id = s
        /\ drinks[d].calories = 150 /\ drinks[d].count = 2
        /\ drinks[e].calories = 118 /\ drinks[e].count = 1
        /\ sessions[s].total_calories = 418

\* ---- C13
Quiescent == \A w \in Workers : conn[w].pc = "idle"

\* C13: with add_drink and update_drink requests of one session interleaved
\* statement by statement, each on its own connection, whenever no request is
\* in flight every session's committed total_calories is the sum of
\* calories * count over its committed drink rows.
C13_TotalConsistentWhenQuiescent ==
    Quiescent =>
        \A s \in DOMAIN sessions :
            sessions[s].total_calories =
                DrinkSum({d \in DOMAIN drinks : drinks[d].session_id = s})

\* No request is in flight, the last request of a worker began while the
\* other worker's was in flight and was answered 200, and the session holds two
\* drinks, one of them with a count above 1.
C13_Witness ==
    /\ Quiescent
    /\ \E w \in Workers : conn[w].overlap
    /\ \E s \in DOMAIN sessions, d, e \in DOMAIN drinks :
          /\ d # e /\ drinks[d].session_id = s /\ drinks[e].session_id = s
          /\ drinks[d].count > 1

\* ---- C14
\* C14: after any sequence of completed requests every drink row and every
\* exercise row names an existing session, and every session names a
\* registered user, although the store enforces no foreign key.
C14_ReferentialIntegrity ==
    /\ \A d \in DOMAIN drinks : drinks[d].session_id \in DOMAIN sessions
    /\ \A e \in DOMAIN exercises : exercises[e].session_id \in DOMAIN sessions
    /\ \A s \in DOMAIN sessions : sessions[s].user_email \in DOMAIN users

\* Two users are registered, a session that held a drink and an exercise has
\* been deleted with them, and the session that is left holds a drink and an
\* exercise.
C14_Witness ==
    /\ Cardinality(DOMAIN users) = 2
    /\ DeletedSessions # {}
    /\ nextDrink = 3 /\ Cardinality(DOMAIN drinks) = 1
    /\ nextExercise = 3 /\ Cardinality(DOMAIN exercises) = 1
    /\ \E s \in DOMAIN sessions :
          /\ DrinksOf(drinks, s) # {}
          /\ ExercisesOf(exercises, s) # {}

\* ---- C15
\* C15: in every reachable state the current_session_id of every browser's
\* cookie, several browsers of the same user included, is null or the id of
\* an existing session owned by the user logged in on that browser; it never
\* names a deleted session.
C15_CurrentSessionValid ==
    \A c \in Clients :
        \/ flask[c].current_session_id = NoneId
        \/ /\ flask[c].current_session_id \in DOMAIN sessions
           /\ get_current_user_email(c) # NoneEmail
           /\ sessions[flask[c].current_session_id].user_email =
                  get_current_user_email(c)

\* ---- C16
MetricsSet(u) == u \in DOMAIN users /\ ~users[u].metrics.isnull

\* every exercise row belongs to a session whose owner has metrics set
ExerciseOwnersHaveMetrics ==
    \A e \in DOMAIN exercises :
        /\ exercises[e].session_id \in DOMAIN sessions
        /\ MetricsSet(sessions[exercises[e].session_id].user_email)

\* add_exercise of a caller without metrics answers 400 and stores nothing
NoMetricsNoExercise ==
    \A s \in SessionIds, f \in AllExerciseForms :
        (Owns("k1", s) /\ ~MetricsSet(get_current_user_email("k1"))) =>
            LET r == add_exercise_result("k1", s, f)
            IN  r.status = 400 /\ Unchanged(r)

\* update_exercise that finds its row, and get_dashboard_data of a session
\* with exercise rows, read metrics that are set
ReadersFindMetrics ==
    /\ \A s \in SessionIds, x \in ExerciseIds :
          OwnsExercise("k1", s, x) => MetricsSet(get_current_user_email("k1"))
    /\ \A s \in SessionIds :
          (Owns("k1", s) /\ ExercisesOf(exercises, s) # {}) =>
              /\ MetricsSet(get_current_user_email("k1"))
              /\ get_dashboard_data_result("k1", s).status # 400

\* C16: no step unsets metrics that are set; add_exercise stores a row only
\* for a caller whose metrics are set; so every exercise row belongs to a
\* session whose owner has metrics set, and update_exercise and
\* get_dashboard_data read set metrics wherever exercise rows exist.
C16_MetricsStaySet ==
    /\ [](ExerciseOwnersHaveMetrics /\ NoMetricsNoExercise /\ ReadersFindMetrics)
    /\ [][\A u \in DOMAIN users :
             ~users[u].metrics.isnull =>
                 (u \in DOMAIN users' /\ ~users'[u].metrics.isnull)]_vars

\* The user has had metrics with a numeric weight, logged two exercises with
\* them in a session they own and then stored metrics again, now with a weight
\* that is no number.
C16_Witness ==
    \E u \in DOMAIN users, s \in DOMAIN sessions :
        /\ ~users[u].metrics.isnull /\ ~users[u].metrics.numeric
        /\ sessions[s].user_email = u
        /\ Cardinality(ExercisesOf(exercises, s)) = 2
        /\ \A e \in ExercisesOf(exercises, s) : exercises[e].calories_burned > 0

====
